---- MODULE Spec2Model ----
(***************************************************************************)
(* A model of dropper.py: a Flask file server that confines user paths to  *)
(* a root directory, guards its routes with HTTP Basic authentication and  *)
(* keeps a short-name table built by one walk of the tree at startup.      *)
(*                                                                         *)
(* Strings are sequences of one-character strings, a file name is such a   *)
(* string, and an absolute path is a sequence of names.                    *)
(***************************************************************************)
EXTENDS Integers, Sequences, FiniteSets, TLC

VARIABLES pc, no_auth, env_auth, AUTH, fs, SHORT_URLS, bound, resp, walk, assigned

vars == <<pc, no_auth, env_auth, AUTH, fs, SHORT_URLS, bound, resp, walk, assigned>>

\* Python's None, distinct from every string (also from the empty string).
None == <<"None">>

----------------------------------------------------------------------------
\* Characters

\* ord(): the code point of a character (ASCII).
Ord(c) ==
  CASE c = " " -> 32  [] c = "!" -> 33  [] c = "." -> 46  [] c = "/" -> 47
    [] c = "0" -> 48  [] c = "1" -> 49  [] c = "2" -> 50  [] c = "3" -> 51
    [] c = "4" -> 52  [] c = "5" -> 53  [] c = "6" -> 54  [] c = "7" -> 55
    [] c = "8" -> 56  [] c = "9" -> 57  [] c = ":" -> 58
    [] c = "=" -> 61
    [] c = "A" -> 65  [] c = "B" -> 66  [] c = "I" -> 73  [] c = "R" -> 82
    [] c = "S" -> 83  [] c = "T" -> 84  [] c = "Y" -> 89  [] c = "_" -> 95
    [] c = "a" -> 97  [] c = "b" -> 98  [] c = "c" -> 99  [] c = "d" -> 100
    [] c = "e" -> 101 [] c = "f" -> 102 [] c = "h" -> 104 [] c = "i" -> 105
    [] c = "j" -> 106 [] c = "k" -> 107 [] c = "l" -> 108 [] c = "o" -> 111
    [] c = "p" -> 112 [] c = "r" -> 114 [] c = "s" -> 115 [] c = "t" -> 116
    [] c = "z" -> 122
    [] OTHER -> 63

\* str.lower() on one character.
LowerChar(c) ==
  CASE c = "A" -> "a" [] c = "B" -> "b" [] c = "I" -> "i" [] c = "R" -> "r"
    [] c = "S" -> "s" [] c = "T" -> "t" [] c = "Y" -> "y"
    [] OTHER -> c

\* str.lower()
Lower(s) == [n \in 1..Len(s) |-> LowerChar(s[n])]

IsSpace(c) == c = " "

\* str.strip(): drop leading and trailing whitespace.
RECURSIVE LStrip(_)
LStrip(s) == IF s # <<>> /\ IsSpace(Head(s)) THEN LStrip(Tail(s)) ELSE s

RECURSIVE RStrip(_)
RStrip(s) ==
  IF s # <<>> /\ IsSpace(s[Len(s)]) THEN RStrip(SubSeq(s, 1, Len(s) - 1)) ELSE s

Strip(s) == RStrip(LStrip(s))

\* t.startswith(s)
StartsWith(t, s) == Len(s) <= Len(t) /\ SubSeq(t, 1, Len(s)) = s

\* the Python test `q in s` on strings: q occurs in s as a substring.
Contains(s, q) ==
  \E n \in 0..(Len(s) - Len(q)) : SubSeq(s, n + 1, n + Len(q)) = q

\* Lexicographic order of strings by code point (the order sorted() uses).
RECURSIVE StrLess(_, _)
StrLess(s, t) ==
  IF t = <<>> THEN FALSE
  ELSE IF s = <<>> THEN TRUE
  ELSE IF Ord(Head(s)) # Ord(Head(t)) THEN Ord(Head(s)) < Ord(Head(t))
  ELSE StrLess(Tail(s), Tail(t))

\* sorted(S) for a set of strings, ascending or (rev) descending.
RECURSIVE SortNames(_, _)
SortNames(S, rev) ==
  IF S = {} THEN <<>>
  ELSE LET m == CHOOSE x \in S : \A y \in S \ {x} :
                   IF rev THEN StrLess(y, x) ELSE StrLess(x, y)
       IN <<m>> \o SortNames(S \ {m}, rev)

----------------------------------------------------------------------------
\* Paths

\* Split a string on "/" (every separator, empty pieces kept).
RECURSIVE SplitSlash(_)
SplitSlash(s) ==
  IF s = <<>> THEN << <<>> >>
  ELSE LET r == SplitSlash(Tail(s))
       IN IF Head(s) = "/" THEN << <<>> >> \o r
          ELSE << <<Head(s)>> \o Head(r) >> \o Tail(r)

\* pathlib's parsing of a string: the components, '' and '.' dropped.
Parts(s) == SelectSeq(SplitSlash(s), LAMBDA c : c # <<>> /\ c # <<".">>)

IsAbsolute(s) == s # <<>> /\ Head(s) = "/"

\* as_posix() of a relative path: components joined with "/".
RECURSIVE JoinSlash(_)
JoinSlash(parts) ==
  IF parts = <<>> THEN <<>>
  ELSE IF Len(parts) = 1 THEN parts[1]
  ELSE parts[1] \o <<"/">> \o JoinSlash(Tail(parts))

\* str() of an absolute path.
RECURSIVE PathStr(_)
PathStr(p) ==
  IF p = <<>> THEN <<"/">>
  ELSE IF Len(p) = 1 THEN <<"/">> \o p[1]
  ELSE PathStr(SubSeq(p, 1, Len(p) - 1)) \o <<"/">> \o p[Len(p)]

Parent(p) == IF p = <<>> THEN <<>> ELSE SubSeq(p, 1, Len(p) - 1)

\* p is q or below q, component by component.
IsWithin(p, q) == Len(q) <= Len(p) /\ SubSeq(p, 1, Len(q)) = q

----------------------------------------------------------------------------
\* Authentication (check_auth_header, requires_auth)

\* binascii's table_a2b_base64: the 6-bit value of a character of the
\* standard alphabet, 64 for every other character.
B64Val(c) ==
  LET o == Ord(c)
  IN IF o >= 65 /\ o <= 90 THEN o - 65
     ELSE IF o >= 97 /\ o <= 122 THEN o - 97 + 26
     ELSE IF o >= 48 /\ o <= 57 THEN o - 48 + 52
     ELSE IF c = "+" THEN 62
     ELSE IF c = "/" THEN 63
     ELSE 64

DecodeError == [ok |-> FALSE, val |-> <<>>]

\* binascii.a2b_base64 in its default, non-strict mode: the loop over the
\* input with its quad position, left-over bits and pad count.
RECURSIVE a2b_base64(_, _, _, _, _)
a2b_base64(s, quad_pos, leftchar, pads, out) ==
  IF s = <<>>
  THEN IF quad_pos # 0 THEN DecodeError ELSE [ok |-> TRUE, val |-> out]
  ELSE LET c == Head(s)
           v == B64Val(c)
       IN IF c = "="
          THEN IF quad_pos >= 2 /\ quad_pos + pads + 1 >= 4
               THEN [ok |-> TRUE, val |-> out]
               ELSE a2b_base64(Tail(s), quad_pos, leftchar,
                               IF quad_pos >= 2 THEN pads + 1 ELSE pads, out)
          ELSE IF v >= 64
          THEN a2b_base64(Tail(s), quad_pos, leftchar, pads, out)
          ELSE CASE quad_pos = 0 ->
                      a2b_base64(Tail(s), 1, v, 0, out)
                 [] quad_pos = 1 ->
                      a2b_base64(Tail(s), 2, v % 16, 0,
                                 Append(out, (leftchar * 4 + v \div 16) % 256))
                 [] quad_pos = 2 ->
                      a2b_base64(Tail(s), 3, v % 4, 0,
                                 Append(out, (leftchar * 16 + v \div 4) % 256))
                 [] OTHER ->
                      a2b_base64(Tail(s), 0, 0, 0,
                                 Append(out, (leftchar * 64 + v) % 256))

\* base64.b64decode(creds) with validate left at False.
b64decode(creds) == a2b_base64(creds, 0, 0, 0, <<>>)

IsCont(b) == b >= 128 /\ b <= 191

\* bytes.decode("utf-8"): the code points, or an error on an invalid sequence.
RECURSIVE utf8_decode(_, _)
utf8_decode(bytes, out) ==
  IF bytes = <<>> THEN [ok |-> TRUE, val |-> out]
  ELSE LET b == bytes[1]
           n == Len(bytes)
       IN IF b < 128 THEN utf8_decode(Tail(bytes), Append(out, b))
          ELSE IF b >= 194 /\ b <= 223
          THEN IF n >= 2 /\ IsCont(bytes[2])
               THEN utf8_decode(SubSeq(bytes, 3, n),
                                Append(out, (b - 192) * 64 + (bytes[2] - 128)))
               ELSE DecodeError
          ELSE IF b >= 224 /\ b <= 239
          THEN IF n >= 3 /\ IsCont(bytes[2]) /\ IsCont(bytes[3])
                  /\ (b = 224 => bytes[2] >= 160)
                  /\ (b = 237 => bytes[2] <= 159)
               THEN utf8_decode(SubSeq(bytes, 4, n),
                                Append(out, (b - 224) * 4096 + (bytes[2] - 128) * 64
                                            + (bytes[3] - 128)))
               ELSE DecodeError
          ELSE IF b >= 240 /\ b <= 244
          THEN IF n >= 4 /\ IsCont(bytes[2]) /\ IsCont(bytes[3]) /\ IsCont(bytes[4])
                  /\ (b = 240 => bytes[2] >= 144)
                  /\ (b = 244 => bytes[2] <= 143)
               THEN utf8_decode(SubSeq(bytes, 5, n),
                                Append(out, (b - 240) * 262144 + (bytes[2] - 128) * 4096
                                            + (bytes[3] - 128) * 64 + (bytes[4] - 128)))
               ELSE DecodeError
          ELSE DecodeError

\* The code points of a string.
CodePoints(s) == [n \in 1..Len(s) |-> Ord(s[n])]

\* The first whitespace-delimited token of a string without leading whitespace.
RECURSIVE FirstToken(_)
FirstToken(s) ==
  IF s = <<>> \/ IsSpace(Head(s)) THEN <<>> ELSE <<Head(s)>> \o FirstToken(Tail(s))

\* header.split(None, 1): at most two pieces, split at the first run of
\* whitespace; the second piece keeps its inner and trailing whitespace.
split_once(header) ==
  LET h == LStrip(header)
      typ == FirstToken(h)
      rest == LStrip(SubSeq(h, Len(typ) + 1, Len(h)))
  IN IF h = <<>> THEN <<>>
     ELSE IF rest = <<>> THEN <<typ>>
     ELSE <<typ, rest>>

\* check_auth_header(header), with the global AUTH as a parameter. An
\* exception anywhere in the try block (unpacking one piece into two names,
\* a decode error) gives False.
check_auth_header(header, auth) ==
  IF header = None \/ header = <<>> THEN FALSE
  ELSE LET pieces == split_once(header)
       IN IF Len(pieces) # 2 THEN FALSE
          ELSE IF Lower(pieces[1]) # <<"b", "a", "s", "i", "c">> THEN FALSE
          ELSE LET raw == b64decode(pieces[2])
               IN IF ~raw.ok THEN FALSE
                  ELSE LET decoded == utf8_decode(raw.val, <<>>)
                       IN decoded.ok /\ decoded.val = CodePoints(auth)

----------------------------------------------------------------------------
\* The filesystem

\* Names
nh == <<"h">>
nR == <<"R">>
nR2 == <<"R", "2">>
ne == <<"e">>
np == <<"p">>
nf == <<"f">>
ns == <<"s">>
nat == <<"a", ".", "t">>
nB == <<"B">>
nk == <<"k">>
nl == <<"l">>
nj == <<"j">>
nd == <<"d">>
nz == <<"z">>

\* ROOT: the resolved --dir. /h/R2 is a sibling directory whose name has
\* ROOT's name as a prefix, /e/p a file outside ROOT.
ROOT == <<nh, nR>>

\* The paths below ROOT where a regular file may exist.
FileSlots == {ROOT \o <<nat>>, ROOT \o <<ns, nat>>, ROOT \o <<ns, nB>>}

\* Symbolic links below ROOT, each with its (absolute) target: k to a file
\* outside ROOT, l to a directory outside ROOT, j to a directory inside ROOT,
\* d to a path that does not exist.
LinkTarget(p) ==
  CASE p = ROOT \o <<nk>> -> <<ne, np>>
    [] p = ROOT \o <<nl>> -> <<ne>>
    [] p = ROOT \o <<nj>> -> ROOT \o <<ns>>
    [] p = ROOT \o <<nd>> -> ROOT \o <<nz>>

DanglingLink == ROOT \o <<nd>>
LinkSlots == {ROOT \o <<nk>>, ROOT \o <<nl>>, ROOT \o <<nj>>, DanglingLink}

Slots == FileSlots \cup LinkSlots

NoNode == [kind |-> "none", new |-> FALSE, target |-> <<>>]
DirNode == [kind |-> "dir", new |-> FALSE, target |-> <<>>]
FileNode(new) == [kind |-> "file", new |-> new, target |-> <<>>]
LinkNode(p) == [kind |-> "link", new |-> FALSE, target |-> LinkTarget(p)]

\* The part of the tree that never changes.
StaticDirs == {<<>>, <<nh>>, ROOT, ROOT \o <<ns>>, <<nh, nR2>>, <<ne>>}
StaticFiles == {<<nh, nR2, nf>>, <<ne, np>>}

AllPaths == StaticDirs \cup StaticFiles \cup Slots

\* lstat(p): the node at path p itself, links not followed.
Node(f, p) ==
  IF p \in DOMAIN f THEN f[p]
  ELSE IF p \in StaticDirs THEN DirNode
  ELSE IF p \in StaticFiles THEN FileNode(FALSE)
  ELSE NoNode

\* os.path.realpath(cur + rest) in non-strict mode, cur being resolved
\* already: '..' steps to the parent, a symbolic link is replaced by its
\* target, a missing component is kept as it is.
RECURSIVE Resolve(_, _, _)
Resolve(f, cur, rest) ==
  IF rest = <<>> THEN cur
  ELSE LET c == Head(rest)
       IN IF c = <<".", ".">> THEN Resolve(f, Parent(cur), Tail(rest))
          ELSE LET n == Node(f, Append(cur, c))
               IN IF n.kind = "link"
                  THEN Resolve(f, <<>>, n.target \o Tail(rest))
                  ELSE Resolve(f, Append(cur, c), Tail(rest))

\* Path.resolve() of an absolute path.
RealPath(f, p) == Resolve(f, <<>>, p)

\* Path.stat(): the node a path leads to, links followed.
Stat(f, p) == Node(f, RealPath(f, p))

exists(f, p) == Stat(f, p).kind # "none"
is_dir(f, p) == Stat(f, p).kind = "dir"
is_file(f, p) == Stat(f, p).kind = "file"
islink(f, p) == Node(f, p).kind = "link"

\* The names in directory p.
Children(f, p) ==
  {q[Len(q)] : q \in {r \in AllPaths : r # <<>> /\ Parent(r) = p
                                       /\ Node(f, r).kind # "none"}}

----------------------------------------------------------------------------
\* Filesystem helpers of the program

\* ROOT / rel_path: an absolute right operand replaces the left one.
JoinRoot(rel_path) ==
  IF IsAbsolute(rel_path) THEN Parts(rel_path) ELSE ROOT \o Parts(rel_path)

\* A variant that compares the two paths as strings.
relative_to_strprefix(target, root) == StartsWith(PathStr(target), PathStr(root))

\* target.relative_to(root) succeeds: root's components are a prefix of
\* target's.
relative_to(target, root) == IsWithin(target, root)

\* safe_resolve(rel_path): the resolved path, or abort(404).
safe_resolve(f, rel_path) ==
  LET target == RealPath(f, JoinRoot(rel_path))
  IN IF relative_to(target, ROOT) THEN [ok |-> TRUE, target |-> target]
     ELSE [ok |-> FALSE, target |-> target]

\* as_posix() of pathlib.Path(rel_path) / name.
PosixJoin(rel_path, name) ==
  (IF IsAbsolute(rel_path) THEN <<"/">> ELSE <<>>)
    \o JoinSlash(Append(Parts(rel_path), name))

\* as_posix() of pathlib.Path(rel_path): the empty path prints as ".".
PosixStr(rel_path) ==
  IF IsAbsolute(rel_path) THEN <<"/">> \o JoinSlash(Parts(rel_path))
  ELSE IF Parts(rel_path) = <<>> THEN <<".">>
  ELSE JoinSlash(Parts(rel_path))

\* One record of a listing or of the index. stat is the filesystem object
\* whose size and modification time the record reports.
Entry(name, relpath, stat) == [name |-> name, relpath |-> relpath, stat |-> stat]

\* list_dir(rel_path) after safe_resolve gave p: the children in sorted
\* order, classified by is_dir() and is_file(), which follow links.
list_dir_body(f, rel_path, p) ==
  LET names == SortNames(Children(f, p), FALSE)
      E(c) == Entry(c, PosixJoin(rel_path, c), RealPath(f, Append(p, c)))
      ds == SelectSeq(names, LAMBDA c : is_dir(f, Append(p, c)))
      fl == SelectSeq(names, LAMBDA c : ~is_dir(f, Append(p, c))
                                        /\ is_file(f, Append(p, c)))
  IN [dirs |-> [n \in 1..Len(ds) |-> E(ds[n])],
      files |-> [n \in 1..Len(fl) |-> E(fl[n])],
      cwd |-> PosixStr(rel_path)]

\* The filesystem objects list_dir reads the type or metadata of.
list_dir_touched(f, p) == {p} \cup {RealPath(f, Append(p, c)) : c \in Children(f, p)}

\* os.walk(top), top-down, followlinks=False: one (root, dirs, files) triple
\* per directory. A name is among dirs when is_dir() holds for it (links
\* followed); a directory that is a link is listed but not entered. rev tells
\* which of two orders scandir returns the names in.
RECURSIVE os_walk(_, _, _)
RECURSIVE walk_dirs(_, _, _, _)
os_walk(f, top, rev) ==
  LET names == SortNames(Children(f, top), rev)
      ds == SelectSeq(names, LAMBDA c : is_dir(f, Append(top, c)))
      nondirs == SelectSeq(names, LAMBDA c : ~is_dir(f, Append(top, c)))
  IN <<[root |-> top, dirs |-> ds, files |-> nondirs]>>
       \o walk_dirs(f, top, ds, rev)

walk_dirs(f, top, ds, rev) ==
  IF ds = <<>> THEN <<>>
  ELSE (IF islink(f, Append(top, Head(ds))) THEN <<>>
        ELSE os_walk(f, Append(top, Head(ds)), rev))
       \o walk_dirs(f, top, Tail(ds), rev)

\* root_p.relative_to(ROOT).as_posix()
RelRoot(root_p) == PosixStr(JoinSlash(SubSeq(root_p, Len(ROOT) + 1, Len(root_p))))

\* (pathlib.Path(rel_root) / f).as_posix() if rel_root != "." else f
RelPathOf(rel_root, f) == IF rel_root # <<".">> THEN PosixJoin(rel_root, f) ELSE f

\* The walk flattened: one [rel_root, name, path] per file, in walk order.
RECURSIVE FlattenWalk(_)
FlattenWalk(triples) ==
  IF triples = <<>> THEN <<>>
  ELSE LET t == Head(triples)
       IN [n \in 1..Len(t.files) |->
             [rel_root |-> RelRoot(t.root), name |-> t.files[n],
              path |-> Append(t.root, t.files[n])]]
          \o FlattenWalk(Tail(triples))

\* build_index(): one entry per file of the walk. fp.stat() follows links
\* and raises for a path that leads nowhere, which ends the request.
build_index(f, rev) ==
  LET files == FlattenWalk(os_walk(f, ROOT, rev))
  IN IF \E n \in 1..Len(files) : ~exists(f, files[n].path)
     THEN [ok |-> FALSE, val |-> <<>>]
     ELSE [ok |-> TRUE,
           val |-> [n \in 1..Len(files) |->
                      Entry(files[n].name,
                            RelPathOf(files[n].rel_root, files[n].name),
                            RealPath(f, files[n].path))]]

\* The filesystem objects the walk and build_index read the type or
\* metadata of: every directory entry classified, every file stat-ed.
RECURSIVE walk_touched(_, _)
walk_touched(f, triples) ==
  IF triples = <<>> THEN {}
  ELSE LET t == Head(triples)
       IN {RealPath(f, Append(t.root, t.dirs[n])) : n \in 1..Len(t.dirs)}
          \cup {RealPath(f, Append(t.root, t.files[n])) : n \in 1..Len(t.files)}
          \cup walk_touched(f, Tail(triples))

build_index_touched(f, rev) == walk_touched(f, os_walk(f, ROOT, rev))

----------------------------------------------------------------------------
\* The short-name table

\* The index of the last "." of a name, 0 when there is none.
RECURSIVE LastDot(_)
LastDot(s) ==
  IF s = <<>> THEN 0
  ELSE IF s[Len(s)] = "." THEN Len(s)
  ELSE LastDot(SubSeq(s, 1, Len(s) - 1))

\* os.path.splitext(f) for a bare name: the extension starts at the last
\* dot, unless only dots come before that dot.
splitext(f) ==
  LET d == LastDot(f)
  IN IF d > 0 /\ \E n \in 1..(d - 1) : f[n] # "."
     THEN <<SubSeq(f, 1, d - 1), SubSeq(f, d, Len(f))>>
     ELSE <<f, <<>>>>

DigitChar(d) ==
  CASE d = 0 -> "0" [] d = 1 -> "1" [] d = 2 -> "2" [] d = 3 -> "3" [] d = 4 -> "4"
    [] d = 5 -> "5" [] d = 6 -> "6" [] d = 7 -> "7" [] d = 8 -> "8" [] d = 9 -> "9"

\* str(i) for i >= 0
RECURSIVE IntStr(_)
IntStr(i) == IF i < 10 THEN <<DigitChar(i)>> ELSE IntStr(i \div 10) \o <<DigitChar(i % 10)>>

\* A variant that puts the counter after the extension.
Suffixed_after_ext(f, i) == f \o <<"_">> \o IntStr(i)

\* f"{base}_{i}{ext}"
Suffixed(f, i) == splitext(f)[1] \o <<"_">> \o IntStr(i) \o splitext(f)[2]

\* A variant that does not loop.
FreeIndex_first(table, f, i) == i

\* The while loop: the first i >= start whose suffixed name is not a key.
RECURSIVE FreeIndex(_, _, _)
FreeIndex(table, f, i) ==
  IF Suffixed(f, i) \in DOMAIN table THEN FreeIndex(table, f, i + 1) ELSE i

\* The short name the loop body picks for file name f.
ShortName(table, f) ==
  IF f \in DOMAIN table THEN Suffixed(f, FreeIndex(table, f, 1)) ELSE f

\* SHORT_URLS[key] = value
DictSet(table, key, value) ==
  [k \in DOMAIN table \cup {key} |-> IF k = key THEN value ELSE table[k]]

\* One pass of the loop body for file f of directory rel_root.
InsertShort(table, rel_root, f) ==
  DictSet(table, ShortName(table, f), RelPathOf(rel_root, f))

EmptyDict == [k \in {} |-> <<>>]

\* The whole loop over a flattened walk.
RECURSIVE BuildTable(_, _)
BuildTable(table, files) ==
  IF files = <<>> THEN table
  ELSE BuildTable(InsertShort(table, Head(files).rel_root, Head(files).name),
                  Tail(files))

----------------------------------------------------------------------------
\* Requests and responses

\* What a handler returns: the HTTP status, whether the WWW-Authenticate
\* challenge is set, the body, the filesystem objects whose type or metadata
\* it read or whose bytes it served, whether it read SHORT_URLS, and the
\* handler bodies that ran.
Result(status, body, touched, table_read, ran) ==
  [status |-> status, www |-> FALSE, body |-> body, touched |-> touched,
   table_read |-> table_read, ran |-> ran]

\* abort(404)
NotFound(touched, table_read, ran) ==
  Result(404, "Not Found", touched, table_read, ran)

\* Response("Authentication required", 401, {"WWW-Authenticate": ...})
Unauthorized ==
  [status |-> 401, www |-> TRUE, body |-> "Authentication required",
   touched |-> {}, table_read |-> FALSE, ran |-> {}]

\* A variant that lets every request through.
requires_auth_off(auth, hdr, result) == result

\* The decorator: func runs if AUTH is None or the header checks out.
requires_auth(auth, hdr, result) ==
  IF auth = None \/ check_auth_header(hdr, auth) THEN result ELSE Unauthorized

\* index_page()
index_page == Result(200, [html |-> "INDEX_HTML", root |-> PathStr(ROOT)], {}, FALSE, {"index_page"})

\* api_ls() with list_dir(rel) inlined; arg is the path parameter ("." when
\* the request has none).
api_ls(f, arg) ==
  LET rel == IF arg = <<".">> THEN <<>> ELSE arg
      r == safe_resolve(f, rel)
  IN IF ~r.ok THEN NotFound({}, FALSE, {"api_ls"})
     ELSE IF ~exists(f, r.target) \/ ~is_dir(f, r.target)
     THEN NotFound({r.target}, FALSE, {"api_ls"})
     ELSE Result(200, list_dir_body(f, rel, r.target),
                 list_dir_touched(f, r.target), FALSE, {"api_ls"})

\* The test of the search loop on one entry.
Matches(q, e) == Contains(Lower(e.name), q) \/ Contains(Lower(e.relpath), q)

\* api_search(); arg is the q parameter ("" when the request has none). An
\* exception in build_index() ends the request with status 500.
api_search(f, arg, rev) ==
  LET q == Lower(Strip(arg))
      idx == build_index(f, rev)
  IN IF q = <<>> THEN Result(200, <<>>, {}, FALSE, {"api_search"})
     ELSE IF ~idx.ok
     THEN Result(500, "Internal Server Error", build_index_touched(f, rev),
                 FALSE, {"api_search"})
     ELSE Result(200, SelectSeq(idx.val, LAMBDA e : Matches(q, e)),
                 build_index_touched(f, rev), FALSE, {"api_search"})

\* dl(relpath): the file at the resolved path, sent as an attachment.
dl(f, relpath) ==
  LET r == safe_resolve(f, relpath)
  IN IF ~r.ok THEN NotFound({}, FALSE, {"dl"})
     ELSE IF ~exists(f, r.target) \/ ~is_file(f, r.target)
     THEN NotFound({r.target}, FALSE, {"dl"})
     ELSE Result(200, [file |-> r.target, new |-> Node(f, r.target).new,
                       attachment |-> r.target[Len(r.target)]],
                 {r.target}, FALSE, {"dl"})

\* legacy_dl(relpath): a redirect to url_for("dl", relpath=relpath).
legacy_dl(relpath) ==
  Result(302, [location |-> <<"/", "d", "l", "/">> \o relpath], {}, FALSE, {"legacy_dl"})

\* The name dl is bound to the decorated function, which drop() calls.
route_dl(f, auth, hdr, relpath) == requires_auth(auth, hdr, dl(f, relpath))

\* A variant that takes the short name for the relative path.
drop_by_filename(f, table, auth, hdr, filename) ==
  LET r == route_dl(f, auth, hdr, filename)
  IN [r EXCEPT !.table_read = TRUE, !.ran = r.ran \cup {"drop"}]

\* A variant that walks the tree again on every request.
drop_rebuilding(f, table, auth, hdr, filename) ==
  LET fresh == BuildTable(EmptyDict, FlattenWalk(os_walk(f, ROOT, FALSE)))
  IN IF filename \notin DOMAIN fresh THEN NotFound({}, TRUE, {"drop"})
     ELSE LET r == route_dl(f, auth, hdr, fresh[filename])
          IN [r EXCEPT !.table_read = TRUE, !.ran = r.ran \cup {"drop"}]

\* drop(filename)
drop(f, table, auth, hdr, filename) ==
  IF filename \notin DOMAIN table THEN NotFound({}, TRUE, {"drop"})
  ELSE LET r == route_dl(f, auth, hdr, table[filename])
       IN [r EXCEPT !.table_read = TRUE, !.ran = r.ran \cup {"drop"}]

\* ping()
ping == Result(200, "ok", {}, FALSE, {"ping"})

\* The view functions as registered with app.route.
route_index(auth, hdr) == requires_auth(auth, hdr, index_page)
route_ls(f, auth, hdr, arg) == requires_auth(auth, hdr, api_ls(f, arg))
route_search(f, auth, hdr, arg, rev) == requires_auth(auth, hdr, api_search(f, arg, rev))
route_legacy_dl(auth, hdr, relpath) == requires_auth(auth, hdr, legacy_dl(relpath))
route_drop(f, table, auth, hdr, filename) ==
  requires_auth(auth, hdr, drop(f, table, auth, hdr, filename))
route_ping == ping

----------------------------------------------------------------------------
\* Inputs

\* The credential DROP_AUTH may hold, and Authorization headers: none, the
\* Basic encoding of "a:b", the same credential under another scheme.
Credential == <<"a", ":", "b">>
EnvValues == {None, <<>>, Credential}
GoodHeader == <<"B", "a", "s", "i", "c", " ", "Y", "T", "p", "i">>
BearerHeader == <<"B", "e", "a", "r", "e", "r", " ", "Y", "T", "p", "i">>
Headers == {None, GoodHeader, BearerHeader}

\* Values of the path parameter of /_ls.
LsPaths ==
  {<<>>, <<".">>, <<"s">>, <<"a", ".", "t">>, <<"s", "/", "a", ".", "t">>,
   <<"s", "/", "B">>, <<"z">>, <<".", ".">>,
   <<".", ".", "/", ".", ".", "/", "e", "/", "p">>,
   <<".", ".", "/", "R", "2", "/", "f">>, <<".", ".", "/", "R", "2">>,
   <<"s", "/", ".", ".", "/", "a", ".", "t">>,
   <<"s", "/", ".", ".", "/", ".", ".", "/", "R", "2", "/", "f">>, <<"k">>,
   <<"l">>, <<"l", "/", "p">>, <<"j">>, <<"j", "/", "a", ".", "t">>, <<"d">>,
   <<"/", "e", "/", "p">>, <<"/", "h", "/", "R", "2">>,
   <<"/", "h", "/", "R">>, <<"/", "h", "/", "R", "/", "s">>}

\* Values of <path:relpath> in /dl/ and /download/: not empty, no leading "/".
DlPaths == {p \in LsPaths : p # <<>> /\ Head(p) # "/"}

\* Values of the q parameter of /_search.
Queries ==
  {<<>>, <<" ">>, <<"a">>, <<"A">>, <<" ", "a", " ">>, <<"B">>,
   <<"S", "/", "b">>, <<".", "t">>, <<"z">>, <<"k">>}

\* Values of <filename> in /drop/.
DropNames ==
  {<<"a", ".", "t">>, <<"a", "_", "1", ".", "t">>, <<"B">>, <<"k">>, <<"d">>,
   <<"z">>}

----------------------------------------------------------------------------
\* The server process

\* No request handled yet.
NoResp ==
  [route |-> "none", arg |-> <<>>, hdr |-> None, status |-> 0, www |-> FALSE,
   body |-> "", touched |-> {}, table_read |-> FALSE, ran |-> {}]

Response(route, arg, hdr, r) ==
  [route |-> route, arg |-> arg, hdr |-> hdr, status |-> r.status, www |-> r.www,
   body |-> r.body, touched |-> r.touched, table_read |-> r.table_read,
   ran |-> r.ran]

\* The regular files the process may find under ROOT when it starts: none,
\* two files of the same name, or those and a third.
InitFiles == {{}, {ROOT \o <<nat>>, ROOT \o <<ns, nat>>}, FileSlots}

\* The trees at startup: the files, the three links k, l and j, and the
\* dangling link d or not.
InitTrees ==
  {[p \in Slots |->
      IF p \in FileSlots THEN (IF p \in F THEN FileNode(FALSE) ELSE NoNode)
      ELSE IF p = DanglingLink /\ ~dangling THEN NoNode
      ELSE LinkNode(p)] : F \in InitFiles, dangling \in BOOLEAN}

\* The process starts with its command line and environment given.
Init ==
  /\ pc = "start"
  /\ no_auth \in BOOLEAN
  /\ env_auth \in EnvValues
  /\ AUTH = None
  /\ fs \in InitTrees
  /\ SHORT_URLS = EmptyDict
  /\ bound = FALSE
  /\ resp = NoResp
  /\ walk = <<>>
  /\ assigned = <<>>

\* A variant that starts the server without a credential.
SetAuth_noexit ==
  /\ pc = "start"
  /\ AUTH' = IF no_auth THEN None ELSE env_auth
  /\ pc' = "loaded"
  /\ UNCHANGED <<no_auth, env_auth, fs, SHORT_URLS, bound, resp, walk, assigned>>

\* Lines 77-90: AUTH is set, and the process exits with status 1 when
\* authentication is on and no credential is configured.
SetAuth ==
  /\ pc = "start"
  /\ AUTH' = IF no_auth THEN None ELSE env_auth
  /\ pc' = IF ~no_auth /\ (env_auth = None \/ env_auth = <<>>)
           THEN "exited" ELSE "loaded"
  /\ UNCHANGED <<no_auth, env_auth, fs, SHORT_URLS, bound, resp, walk, assigned>>

\* Lines 422-436: the walk that fills SHORT_URLS.
BuildShortUrls ==
  /\ pc = "loaded"
  /\ \E rev \in BOOLEAN :
       SHORT_URLS' = BuildTable(EmptyDict, FlattenWalk(os_walk(fs, ROOT, rev)))
  /\ pc' = "main"
  /\ UNCHANGED <<no_auth, env_auth, AUTH, fs, bound, resp, walk, assigned>>

\* Lines 457-466: app.run binds the socket and starts serving.
Run ==
  /\ pc = "main"
  /\ bound' = TRUE
  /\ pc' = "serving"
  /\ UNCHANGED <<no_auth, env_auth, AUTH, fs, SHORT_URLS, resp, walk, assigned>>

\* The server is up and no response is on its way.
Idle == pc = "serving" /\ resp = NoResp

\* A request is handled: its response is on its way to the client.
Serve(r) ==
  /\ resp' = r
  /\ UNCHANGED <<pc, no_auth, env_auth, AUTH, fs, SHORT_URLS, bound, walk, assigned>>

GetIndex ==
  /\ Idle
  /\ \E h \in Headers : Serve(Response("/", <<>>, h, route_index(AUTH, h)))

GetLs ==
  /\ Idle
  /\ \E h \in Headers, a \in LsPaths :
       Serve(Response("/_ls", a, h, route_ls(fs, AUTH, h, a)))

GetSearch ==
  /\ Idle
  /\ \E h \in Headers, q \in Queries, rev \in BOOLEAN :
       Serve(Response("/_search", q, h, route_search(fs, AUTH, h, q, rev)))

GetDl ==
  /\ Idle
  /\ \E h \in Headers, a \in DlPaths :
       Serve(Response("/dl", a, h, route_dl(fs, AUTH, h, a)))

GetDownload ==
  /\ Idle
  /\ \E h \in Headers, a \in DlPaths :
       Serve(Response("/download", a, h, route_legacy_dl(AUTH, h, a)))

GetDrop ==
  /\ Idle
  /\ \E h \in Headers, n \in DropNames :
       Serve(Response("/drop", n, h, route_drop(fs, SHORT_URLS, AUTH, h, n)))

GetPing ==
  /\ Idle
  /\ \E h \in Headers : Serve(Response("/_ping", <<>>, h, route_ping))

\* The response is written to the client and the worker is free again.
Respond ==
  /\ pc = "serving"
  /\ resp # NoResp
  /\ resp' = NoResp
  /\ UNCHANGED <<pc, no_auth, env_auth, AUTH, fs, SHORT_URLS, bound, walk, assigned>>

\* The environment: somebody creates or removes a regular file under ROOT
\* while the server runs.
AddFile ==
  /\ Idle
  /\ \E p \in FileSlots :
       /\ fs[p].kind = "none"
       /\ fs' = [fs EXCEPT ![p] = FileNode(TRUE)]
  /\ UNCHANGED <<pc, no_auth, env_auth, AUTH, SHORT_URLS, bound, resp, walk, assigned>>

RemoveFile ==
  /\ Idle
  /\ \E p \in FileSlots :
       /\ fs[p].kind = "file"
       /\ fs' = [fs EXCEPT ![p] = NoNode]
  /\ UNCHANGED <<pc, no_auth, env_auth, AUTH, SHORT_URLS, bound, resp, walk, assigned>>

Next ==
  \/ SetAuth
  \/ BuildShortUrls
  \/ Run
  \/ GetIndex
  \/ GetLs
  \/ GetSearch
  \/ GetDl
  \/ GetDownload
  \/ GetDrop
  \/ GetPing
  \/ Respond
  \/ AddFile
  \/ RemoveFile

Spec == Init /\ [][Next]_vars

----------------------------------------------------------------------------
\* Properties of the server

\* p is ROOT or a descendant of ROOT: ROOT is p or one of p's ancestors.
InsideRoot(p) == \E n \in 0..Len(p) : SubSeq(p, 1, n) = ROOT

\* The request in flight got past the gate: the server is open, or the
\* header is the Basic encoding of the configured credential.
Admitted == AUTH = None \/ (AUTH = Credential /\ resp.hdr = GoodHeader)

\* The path parameter as list_dir receives it.
LsRel(arg) == IF arg = <<".">> THEN <<>> ELSE arg

\* The root-relative path of a path below ROOT, as a string.
RelOf(p) == JoinSlash(SubSeq(p, Len(ROOT) + 1, Len(p)))

\* C1. Path confinement: safe_resolve(p) returns the resolved join of ROOT
\* and p exactly when that path is ROOT or a descendant of ROOT, and fails
\* otherwise; a /dl or /_ls request whose path resolves outside ROOT is
\* answered 404 without reading anything, and what /dl serves or /_ls lists
\* is a file or directory inside ROOT.
PathConfinement ==
  /\ \A p \in LsPaths :
       LET t == RealPath(fs, JoinRoot(p))
       IN IF InsideRoot(t) THEN safe_resolve(fs, p) = [ok |-> TRUE, target |-> t]
          ELSE ~safe_resolve(fs, p).ok
  /\ resp.route = "/dl" /\ Admitted =>
       LET t == RealPath(fs, JoinRoot(resp.arg))
       IN /\ ~InsideRoot(t) => resp.status = 404 /\ resp.touched = {}
          /\ resp.status = 200 => InsideRoot(resp.body.file) /\ resp.body.file = t
  /\ resp.route = "/_ls" /\ Admitted =>
       LET t == RealPath(fs, JoinRoot(LsRel(resp.arg)))
       IN /\ ~InsideRoot(t) => resp.status = 404 /\ resp.touched = {}
          /\ resp.status = 200 => InsideRoot(t) /\ Node(fs, t).kind = "dir"

\* A download of ../R2/f, a file in the sibling directory R2, is refused.
SiblingRefused ==
  /\ resp.route = "/dl"
  /\ resp.arg = <<".", ".", "/", "R", "2", "/", "f">>
  /\ Admitted
  /\ resp.status = 404

GatedRoutes == {"/", "/_ls", "/_search", "/dl", "/download", "/drop"}

\* C2. Gate coverage: in guarded mode a request to a gated route without
\* the valid header is answered 401 with the challenge, and no handler body
\* runs, nothing on the filesystem is read and the table is not consulted; a
\* handler body of a gated route runs only for an admitted request; /_ping
\* answers 200 "ok" in both modes whatever the header.
GateCoverage ==
  /\ resp.route \in GatedRoutes /\ ~Admitted =>
       /\ resp.status = 401 /\ resp.www
       /\ resp.body = "Authentication required"
       /\ resp.ran = {} /\ resp.touched = {} /\ ~resp.table_read
  /\ resp.route \in GatedRoutes /\ Admitted => resp.status # 401 /\ resp.ran # {}
  /\ resp.route = "/_ping" =>
       resp.status = 200 /\ resp.body = "ok" /\ resp.touched = {} /\ ~resp.www

\* A guarded server refuses a /drop request that carries no header.
DropRefused ==
  /\ AUTH = Credential
  /\ resp.route = "/drop"
  /\ resp.hdr = None
  /\ resp.status = 401

NoCredential == ~no_auth /\ (env_auth = None \/ env_auth = <<>>)

StartupState ==
  /\ NoCredential =>
       /\ pc \in {"start", "exited"}
       /\ SHORT_URLS = EmptyDict /\ ~bound /\ resp = NoResp
  /\ pc = "exited" => NoCredential
  /\ pc = "serving" =>
       \/ no_auth /\ AUTH = None
       \/ ~no_auth /\ AUTH # None /\ AUTH # <<>> /\ AUTH = env_auth

ModeFixed ==
  [][(pc # "start") => (AUTH' = AUTH) /\ (no_auth' = no_auth)]_vars

\* C4. Startup refusal: without --no-auth and without a credential the
\* process only exits: the table is never built, no socket is bound and no
\* request is handled. A serving process is open with no credential or
\* guarded with a non-empty one, and its mode never changes.
StartupRefusal == []StartupState /\ ModeFixed

\* The process has refused to start because DROP_AUTH is empty.
Refused == pc = "exited" /\ ~no_auth /\ env_auth = <<>> /\ ~bound

\* C6 as stated: /drop never serves a file that was created after startup.
DropNeverServesNewFile ==
  resp.route = "/drop" /\ resp.status = 200 => ~resp.body.new

StaleTableState ==
  /\ resp.route = "/dl" /\ Admitted =>
       \A p \in FileSlots :
         resp.arg = RelOf(p) /\ fs[p].kind = "file" /\ fs[p].new =>
           resp.status = 200 /\ resp.body.file = p /\ resp.body.new
  /\ resp.route = "/drop" /\ resp.status = 200 /\ resp.body.new =>
       /\ resp.arg \in DOMAIN SHORT_URLS
       /\ RealPath(fs, JoinRoot(SHORT_URLS[resp.arg])) = resp.body.file
  /\ resp.route = "/drop" /\ Admitted /\ resp.arg \notin DOMAIN SHORT_URLS =>
       resp.status = 404 /\ resp.touched = {}

TableFixed == [][(pc = "main" \/ pc = "serving") => (SHORT_URLS' = SHORT_URLS)]_vars

\* C6, amended. The table is built once at startup and nothing changes it
\* afterwards. A file added under ROOT after startup is served by /dl with
\* its full relative path; /drop/n serves such a file only when n is a key
\* of the startup table and the path stored under n resolves to that file;
\* /drop/n answers 404 when n is not a key of the startup table.
StaleTable == []StaleTableState /\ TableFixed

\* A file s/B was added after startup and /drop/B answers 404.
NewFileNotDropped ==
  /\ fs[ROOT \o <<ns, nB>>].kind = "file" /\ fs[ROOT \o <<ns, nB>>].new
  /\ resp.route = "/drop" /\ resp.arg = nB /\ Admitted
  /\ nB \notin DOMAIN SHORT_URLS
  /\ resp.status = 404

\* What the claim expects of a download of root-relative path rel.
ExpectedDownload(rel) ==
  LET t == RealPath(fs, JoinRoot(rel))
  IN IF InsideRoot(t) /\ Node(fs, t).kind = "file"
     THEN resp.status = 200 /\ resp.body.file = t /\ resp.body.new = Node(fs, t).new
          /\ resp.body.attachment = t[Len(t)]
     ELSE resp.status = 404

\* C7. Short-name download equals direct download: the response to /drop/n
\* for a key n is the response /dl gives for the path stored under n (the
\* file's bytes, or 404 when that path is no regular file inside ROOT), and
\* for n not a key it is 404, whatever files exist.
DropEqualsDl ==
  resp.route = "/drop" =>
    IF resp.arg \in DOMAIN SHORT_URLS
    THEN LET d == route_dl(fs, AUTH, resp.hdr, SHORT_URLS[resp.arg])
         IN /\ resp.status = d.status /\ resp.body = d.body /\ resp.www = d.www
            /\ Admitted => ExpectedDownload(SHORT_URLS[resp.arg])
    ELSE Admitted => resp.status = 404

\* /drop/a_1.t serves the second a.t, the one in directory s.
SuffixedNameServed ==
  /\ resp.route = "/drop" /\ resp.arg = <<"a", "_", "1", ".", "t">>
  /\ resp.status = 200
  /\ resp.body.file = ROOT \o <<ns, nat>>

\* The index the claim speaks of: every file of the walk, once, in order.
FullIndex(rev) ==
  LET files == FlattenWalk(os_walk(fs, ROOT, rev))
  IN [n \in 1..Len(files) |->
        Entry(files[n].name, RelPathOf(files[n].rel_root, files[n].name),
              RealPath(fs, files[n].path))]

\* C8. Search result: an empty (or blank) term gives the empty list; any
\* other term gives the entries of a fresh index of all files under ROOT
\* whose lower-cased name or relative path contains the trimmed, lower-cased
\* term, in index order.
SearchResult ==
  resp.route = "/_search" /\ Admitted =>
    LET q == Lower(Strip(resp.arg))
    IN /\ resp.status = 200
       /\ q = <<>> => resp.body = <<>>
       /\ q # <<>> =>
            \E rev \in BOOLEAN :
              resp.body = SelectSeq(FullIndex(rev),
                            LAMBDA e : Contains(Lower(e.name), q)
                                       \/ Contains(Lower(e.relpath), q))

\* The same on a tree where every link leads somewhere: there build_index()
\* does not raise and the search result is as described.
SearchResultOnSoundTree == fs[DanglingLink].kind = "none" => SearchResult

\* C9. Root invariant: every filesystem object whose type or metadata a
\* handler reads, or whose bytes it serves, is ROOT or a descendant of ROOT.
RootInvariant == \A t \in resp.touched : InsideRoot(t)

----------------------------------------------------------------------------
\* check_auth_header on its own: a guarded server and many headers

\* The longest credential portion of a header tried.
MaxCred == 5

\* Characters of the credential portion: those of the encodings of "a:b"
\* (YTpi) and "a:" (YTo=), and one outside the base64 alphabet.
CredChars == {"Y", "T", "p", "i", "o", "=", "!"}

CredStrings == UNION {[1..n -> CredChars] : n \in 0..MaxCred}

Schemes ==
  {<<"B", "a", "s", "i", "c">>, <<"b", "A", "S", "I", "C">>,
   <<"B", "e", "a", "r", "e", "r">>}

AuthHeaders == {None} \cup {sch \o <<" ">> \o c : sch \in Schemes, c \in CredStrings}

AuthCredentials == {Credential, <<"a", ":">>}

InitAuth ==
  /\ pc = "serving"
  /\ no_auth = FALSE
  /\ env_auth \in AuthCredentials
  /\ AUTH = env_auth
  /\ fs \in {t \in InitTrees : t[DanglingLink].kind = "none"
                                /\ \A p \in FileSlots : t[p].kind = "file"}
  /\ SHORT_URLS = EmptyDict
  /\ bound = TRUE
  /\ resp = NoResp
  /\ walk = <<>>
  /\ assigned = <<>>

\* A request for / with any of the headers.
GetIndexWith ==
  /\ Idle
  /\ \E h \in AuthHeaders : Serve(Response("/", <<>>, h, route_index(AUTH, h)))

NextAuth == GetIndexWith \/ Respond

SpecAuth == InitAuth /\ [][NextAuth]_vars

B64Alphabet == {c \in CredChars : c # "=" /\ B64Val(c) < 64}

\* Standard base64: groups of four alphabet characters, the last group
\* possibly ending in one or two "=".
ValidBase64(c) ==
  /\ Len(c) % 4 = 0
  /\ \A n \in 1..Len(c) :
       \/ c[n] \in B64Alphabet
       \/ c[n] = "=" /\ n >= Len(c) - 1 /\ (n = Len(c) - 1 => c[Len(c)] = "=")

\* The header as the claim reads it: scheme, one space, credential portion.
StrictlyValid(h, auth) ==
  /\ h # None
  /\ LET sch == FirstToken(h)
         c == SubSeq(h, Len(sch) + 2, Len(h))
     IN /\ h = sch \o <<" ">> \o c
        /\ Lower(sch) = <<"b", "a", "s", "i", "c">>
        /\ ValidBase64(c)
        /\ b64decode(c).ok
        /\ b64decode(c).val = CodePoints(auth)

\* C3. Header validation: a header is accepted if and only if it is
\* present, its scheme is Basic in any case, its credential portion is valid
\* standard base64 and decodes to exactly the configured credential; every
\* other header gets 401.
HeaderValidation ==
  resp.route = "/" => (resp.status # 401 <=> StrictlyValid(resp.hdr, AUTH))

----------------------------------------------------------------------------
\* The loop that fills SHORT_URLS, one file at a time

\* The most files in a walk.
MaxWalk == 4

WalkNames == {nat, <<"a", "_", "1", ".", "t">>, <<".", "a">>}
WalkDirs == {<<".">>, <<"s">>, <<"u">>}
WalkFiles == [rel_root : WalkDirs, name : WalkNames]

\* An order os.walk can produce: no file twice, the files of ROOT itself
\* first, the files of each directory together.
WalkOrder(w) ==
  /\ \A m, n \in 1..Len(w) : m # n => w[m] # w[n]
  /\ \A m, n \in 1..Len(w) : m < n /\ w[n].rel_root = <<".">> => w[m].rel_root = <<".">>
  /\ \A m, n \in 1..Len(w) :
       m < n /\ w[m].rel_root = w[n].rel_root =>
         \A k \in m..n : w[k].rel_root = w[m].rel_root

Walks == {w \in UNION {[1..n -> WalkFiles] : n \in 1..MaxWalk} : WalkOrder(w)}

InitWalk ==
  /\ pc = "loaded"
  /\ no_auth = TRUE
  /\ env_auth = None
  /\ AUTH = None
  /\ fs \in {t \in InitTrees : t[DanglingLink].kind = "none"
                                /\ \A p \in FileSlots : t[p].kind = "file"}
  /\ SHORT_URLS = EmptyDict
  /\ bound = FALSE
  /\ resp = NoResp
  /\ walk \in Walks
  /\ assigned = <<>>

\* One pass of the loop body, lines 427-436, for the next file of the walk.
InsertNext ==
  /\ pc = "loaded"
  /\ walk # <<>>
  /\ SHORT_URLS' = InsertShort(SHORT_URLS, Head(walk).rel_root, Head(walk).name)
  /\ assigned' = Append(assigned,
                        [rel_root |-> Head(walk).rel_root, name |-> Head(walk).name,
                         key |-> ShortName(SHORT_URLS, Head(walk).name)])
  /\ walk' = Tail(walk)
  /\ UNCHANGED <<pc, no_auth, env_auth, AUTH, fs, bound, resp>>

NextWalk == InsertNext

SpecWalk == InitWalk /\ [][NextWalk]_vars

\* Name f with "_i" inserted before its extension: before the last dot that
\* has a character other than a dot somewhere before it, at the end of the
\* name if there is no such dot.
Numbered(f, i) ==
  LET dots == {n \in 1..Len(f) : f[n] = "." /\ \E m \in 1..(n - 1) : f[m] # "."}
      d == CHOOSE n \in dots : \A m \in dots : m <= n
  IN IF dots = {} THEN f \o <<"_">> \o IntStr(i)
     ELSE SubSeq(f, 1, d - 1) \o <<"_">> \o IntStr(i) \o SubSeq(f, d, Len(f))

\* The short names given out before the n-th file of the walk.
KeysBefore(n) == {assigned[m].key : m \in 1..(n - 1)}

\* The first two files of the walk that have the same name.
FirstPair(m, n) ==
  /\ m < n
  /\ assigned[m].name = assigned[n].name
  /\ \A k \in 1..(n - 1) : k # m => assigned[k].name # assigned[m].name

\* C5 as stated: of two files with the same name, the first is registered
\* under the bare name and the second under the name with "_1" before the
\* extension, whatever else the tree holds.
CollisionNaming ==
  \A m, n \in 1..Len(assigned) :
    FirstPair(m, n) =>
      /\ assigned[m].key = assigned[m].name
      /\ assigned[n].key = Numbered(assigned[n].name, 1)

\* C5, amended. Of two files with the same name, the first is registered
\* under the bare name unless an earlier file was given that name as its
\* short name, and the second under the name with "_i" before the
\* extension, i the least positive number whose name is not yet a key: "_1"
\* unless an earlier file holds that name.
CollisionNamingLeastFree ==
  /\ \A n \in 1..Len(assigned) :
       LET f == assigned[n].name
       IN IF f \notin KeysBefore(n) THEN assigned[n].key = f
          ELSE \E i \in 1..Len(assigned) :
                 /\ assigned[n].key = Numbered(f, i)
                 /\ Numbered(f, i) \notin KeysBefore(n)
                 /\ \A j \in 1..(i - 1) : Numbered(f, j) \in KeysBefore(n)
  /\ \A m, n \in 1..Len(assigned) :
       FirstPair(m, n) =>
         /\ assigned[m].name \notin KeysBefore(m) => assigned[m].key = assigned[m].name
         /\ /\ assigned[m].key = assigned[m].name
            /\ Numbered(assigned[n].name, 1) \notin KeysBefore(n)
            => assigned[n].key = Numbered(assigned[n].name, 1)

\* Two files a.t were walked: the first is a.t, the second a_1.t.
SecondGetsSuffixOne ==
  /\ Len(assigned) >= 2
  /\ assigned[1].name = nat /\ assigned[1].key = nat
  /\ assigned[2].name = nat /\ assigned[2].key = <<"a", "_", "1", ".", "t">>
  /\ SHORT_URLS[<<"a", "_", "1", ".", "t">>] = <<"s", "/", "a", ".", "t">>

\* The name of the file a table value points to.
BaseName(relpath) == Parts(relpath)[Len(Parts(relpath))]

\* C10. The table is a one-to-one assignment: every file walked is the value
\* of exactly one key, no insertion overwrites an entry, there are as many
\* keys as files walked, and each key is its file's name or that name with
\* "_i" (i >= 1) before the extension, the bare name and every "_j" variant
\* with 1 <= j < i being keys too.
OneToOne ==
  /\ Cardinality(DOMAIN SHORT_URLS) = Len(assigned)
  /\ \A n \in 1..Len(assigned) :
       /\ assigned[n].key \in DOMAIN SHORT_URLS
       /\ \A k \in DOMAIN SHORT_URLS :
            SHORT_URLS[k] = RelPathOf(assigned[n].rel_root, assigned[n].name)
              <=> k = assigned[n].key
  /\ \A k \in DOMAIN SHORT_URLS :
       LET f == BaseName(SHORT_URLS[k])
       IN \/ k = f
          \/ \E i \in 1..Len(assigned) :
               /\ k = Numbered(f, i)
               /\ f \in DOMAIN SHORT_URLS
               /\ \A j \in 1..(i - 1) : Numbered(f, j) \in DOMAIN SHORT_URLS

\* Three files a.t were walked and the third is registered as a_2.t.
ThirdGetsSuffixTwo ==
  /\ walk = <<>>
  /\ <<"a", "_", "2", ".", "t">> \in DOMAIN SHORT_URLS
  /\ SHORT_URLS[<<"a", "_", "2", ".", "t">>] = <<"u", "/", "a", ".", "t">>
  /\ SHORT_URLS[nat] = nat

====
